---- MODULE Spec2Model ----
(***************************************************************************)
(* ZenRead PDF: the application shell (App.tsx), the storage service       *)
(* (services/db) and the sidebar's file tree (Sidebar.tsx).                *)
(*                                                                         *)
(* Strings are sequences of one-character strings, so that split,          *)
(* startsWith, replace and localeCompare are computed on the characters.   *)
(***************************************************************************)
EXTENDS Integers, Sequences, FiniteSets, TLC

VARIABLES files, history, activeFileId, dbFiles, dbHistory, nextId, ops, lastDone,
          calls, treeData, expandedFolders, deletedIds, lateIds, newestPage,
          messages, input, isLoading, requests, nextMsgId, lastSend, apiKey,
          pageNumber, numPages, docLoaded, turnedTo, lastAct

appVars ==
  <<files, history, activeFileId, dbFiles, dbHistory, nextId, ops, lastDone, calls,
    treeData, expandedFolders, deletedIds, lateIds, newestPage>>

chatVars == <<messages, input, isLoading, requests, nextMsgId, lastSend, apiKey>>

readerVars == <<pageNumber, numPages, docLoaded, turnedTo, lastAct>>

vars == <<appVars, chatVars, readerVars>>

(***************************************************************************)
(* Bounds of the model.                                                    *)
(***************************************************************************)
MaxTreeFiles == 3
MaxFiles == 3
MaxOps == 2
MaxCalls == 2
MaxPage == 2
MaxImport == 2
MaxInput == 1
MaxSends == 2

(***************************************************************************)
(* Characters and strings.                                                 *)
(***************************************************************************)
Slash == "/"
EmptyStr == <<>>
Pdf == <<".", "p", "d", "f">>

StartsWith(s, p) ==
  /\ Len(p) <= Len(s)
  /\ SubSeq(s, 1, Len(p)) = p

(* String.prototype.replace(/^\//, ''): drops one leading slash, if any. *)
StripLeadingSlash(s) ==
  IF Len(s) > 0 /\ s[1] = Slash THEN Tail(s) ELSE s

FirstSlash(s) ==
  IF \E i \in 1..Len(s) : s[i] = Slash
  THEN CHOOSE i \in 1..Len(s) : s[i] = Slash /\ \A j \in 1..(i - 1) : s[j] # Slash
  ELSE 0

RECURSIVE Split(_)
(* String.prototype.split('/'): always at least one part, empty parts kept. *)
Split(s) ==
  LET i == FirstSlash(s)
  IN IF i = 0 THEN <<s>>
     ELSE <<SubSeq(s, 1, i - 1)>> \o Split(SubSeq(s, i + 1, Len(s)))

(***************************************************************************)
(* String.prototype.localeCompare under the host's default collation: the  *)
(* strings are compared first by the primary weights of their characters   *)
(* (punctuation before digits before letters, a letter's case ignored),    *)
(* and strings equal at that level are ordered by case, lowercase first.   *)
(***************************************************************************)
CollationOrder ==
  <<".", "/", "2", "a", "b", "c", "d", "f", "o", "p", "r", "s", "u", "x", "y">>

UpperCase == {"B", "D", "F", "S"}

ToLower(c) ==
  CASE c = "B" -> "b"
    [] c = "D" -> "d"
    [] c = "F" -> "f"
    [] c = "S" -> "s"
    [] OTHER -> c

PrimaryWeight(c) ==
  CHOOSE i \in 1..Len(CollationOrder) : CollationOrder[i] = ToLower(c)

CaseWeight(c) == IF c \in UpperCase THEN 1 ELSE 0

RECURSIVE CompareBy(_, _, _)
(* Lexicographic comparison of two strings by the weights w[c]: -1, 0 or 1. *)
CompareBy(a, b, w) ==
  IF Len(a) = 0 /\ Len(b) = 0 THEN 0
  ELSE IF Len(a) = 0 THEN -1
  ELSE IF Len(b) = 0 THEN 1
  ELSE IF w[Head(a)] < w[Head(b)] THEN -1
  ELSE IF w[Head(a)] > w[Head(b)] THEN 1
  ELSE CompareBy(Tail(a), Tail(b), w)

Alphabet == {CollationOrder[i] : i \in 1..Len(CollationOrder)} \cup UpperCase

PrimaryWeights == [c \in Alphabet |-> PrimaryWeight(c)]
CaseWeights == [c \in Alphabet |-> CaseWeight(c)]

LocaleCompare(a, b) ==
  LET p == CompareBy(a, b, PrimaryWeights)
  IN IF p # 0 THEN p ELSE CompareBy(a, b, CaseWeights)

(***************************************************************************)
(* Sidebar: the tree built from the flat file list.                        *)
(* A StoredFile is [id, path]; its name, type, size, data and createdAt    *)
(* are carried along by the program and never read by the code modelled    *)
(* here.  A TreeNode is [name, path, type, children, fileId]; its id and   *)
(* size fields are copies (of fileId or path, of the file's size) that     *)
(* nothing reads back.                                                     *)
(***************************************************************************)
NoFile == 0

RECURSIVE InsertByPath(_, _)
(* Inserts file f into a list sorted by path, after every entry that does  *)
(* not compare greater: Array.prototype.sort is stable.                    *)
InsertByPath(sorted, f) ==
  IF Len(sorted) = 0 THEN <<f>>
  ELSE IF LocaleCompare(Head(sorted).path, f.path) <= 0
       THEN <<Head(sorted)>> \o InsertByPath(Tail(sorted), f)
       ELSE <<f>> \o sorted

RECURSIVE SortByPath(_)
SortByPath(fs) ==
  IF Len(fs) = 0 THEN <<>>
  ELSE InsertByPath(SortByPath(SubSeq(fs, 1, Len(fs) - 1)), fs[Len(fs)])

(* currentLevel.find(n => n.name === part && n.type === ...): the index of *)
(* the first match, 0 when there is none.                                  *)
FindNode(level, part, type) ==
  IF \E i \in 1..Len(level) : level[i].name = part /\ level[i].type = type
  THEN CHOOSE i \in 1..Len(level) :
         /\ level[i].name = part /\ level[i].type = type
         /\ \A j \in 1..(i - 1) : ~(level[j].name = part /\ level[j].type = type)
  ELSE 0

RECURSIVE InsertParts(_, _, _, _)
(* The body of parts.forEach for the parts still to walk, on one level.    *)
InsertParts(level, parts, currentPath, file) ==
  LET part == Head(parts)
      isFile == Len(parts) = 1
      newPath == IF currentPath # EmptyStr
                 THEN currentPath \o <<Slash>> \o part
                 ELSE part
      type == IF isFile THEN "file" ELSE "folder"
      found == FindNode(level, part, type)
      node == [name |-> part, path |-> newPath, type |-> type,
               children |-> <<>>,
               fileId |-> IF isFile THEN file.id ELSE NoFile]
      level1 == IF found = 0 THEN Append(level, node) ELSE level
      at == IF found = 0 THEN Len(level1) ELSE found
  IN IF isFile THEN level1
     ELSE [level1 EXCEPT ![at].children =
             InsertParts(@, Tail(parts), newPath, file)]

InsertFile(root, file) ==
  InsertParts(root, Split(StripLeadingSlash(file.path)), EmptyStr, file)

RECURSIVE InsertAll(_, _)
InsertAll(root, sortedFiles) ==
  IF Len(sortedFiles) = 0 THEN root
  ELSE InsertAll(InsertFile(root, Head(sortedFiles)), Tail(sortedFiles))

(* A variant of the comparator that compares the names only. *)
NodeCompare_NameOnly(a, b) == LocaleCompare(a.name, b.name)

(* The comparator of sortNodes: folders first, then by name. *)
NodeCompare(a, b) ==
  IF a.type = b.type THEN LocaleCompare(a.name, b.name)
  ELSE IF a.type = "folder" THEN -1 ELSE 1

RECURSIVE InsertNode(_, _)
InsertNode(sorted, n) ==
  IF Len(sorted) = 0 THEN <<n>>
  ELSE IF NodeCompare(Head(sorted), n) <= 0
       THEN <<Head(sorted)>> \o InsertNode(Tail(sorted), n)
       ELSE <<n>> \o sorted

RECURSIVE SortLevel(_)
SortLevel(nodes) ==
  IF Len(nodes) = 0 THEN <<>>
  ELSE InsertNode(SortLevel(SubSeq(nodes, 1, Len(nodes) - 1)), nodes[Len(nodes)])

RECURSIVE sortNodes(_)
sortNodes(nodes) ==
  LET sorted == SortLevel(nodes)
  IN [i \in 1..Len(sorted) |->
        [sorted[i] EXCEPT !.children = IF Len(@) > 0 THEN sortNodes(@) ELSE @]]

buildTree(fs) == sortNodes(InsertAll(<<>>, SortByPath(fs)))

(* useMemo(..., [files]): the forest is rebuilt with the file list. *)
Render == treeData' = buildTree(files')

(* Every node of a forest, at any depth. *)
RECURSIVE AllNodes(_)
AllNodes(nodes) ==
  IF Len(nodes) = 0 THEN {}
  ELSE {Head(nodes)} \cup AllNodes(Head(nodes).children) \cup AllNodes(Tail(nodes))

(* The file nodes of a forest as a list, in display order. *)
RECURSIVE FileNodes(_)
FileNodes(nodes) ==
  IF Len(nodes) = 0 THEN <<>>
  ELSE (IF Head(nodes).type = "file" THEN <<Head(nodes)>>
        ELSE FileNodes(Head(nodes).children)) \o FileNodes(Tail(nodes))

(***************************************************************************)
(* Paths and files of the model.                                           *)
(***************************************************************************)
P_a == <<"a">> \o Pdf
P_B == <<"B">> \o Pdf
P_x == <<"x">> \o Pdf
P_Docs == <<"D", "o", "c", "s">>
P_Docs_b == P_Docs \o <<Slash, "b">> \o Pdf
P_Docs_Sub_c == P_Docs \o <<Slash, "S", "u", "b", Slash, "c">> \o Pdf
P_Docs2_d == P_Docs \o <<"2", Slash, "d">> \o Pdf
P_Foo == <<"F", "o", "o">>
P_Foo_x == P_Foo \o <<Slash>> \o P_x
P_Foo_Sub_y == P_Foo \o <<Slash, "S", "u", "b", Slash, "y">> \o Pdf
P_Foobar_x == P_Foo \o <<"b", "a", "r", Slash>> \o P_x
P_slash_x == <<Slash>> \o P_x
P_a_slash_slash_b == <<"a", Slash, Slash, "b">> \o Pdf
P_slash_slash_Foo_x == <<Slash, Slash>> \o P_Foo_x

TreePaths ==
  {P_a, P_B, P_x, P_Docs_b, P_Foo, P_Foo_x, P_Foo_Sub_y, P_Foobar_x,
   P_slash_x, P_a_slash_slash_b, P_slash_slash_Foo_x}

ScenarioPaths == <<P_a, P_Docs_b, P_Docs_Sub_c, P_Docs2_d>>

ScenarioFiles == [i \in 1..Len(ScenarioPaths) |-> [id |-> i, path |-> ScenarioPaths[i]]]

P_Docs_a_doc == P_Docs \o <<Slash, "a", ".", "d", "o", "c">>

(* A File picked in an <input>: its name, its webkitRelativePath, which is *)
(* empty unless the file was picked through the folder input, and its MIME *)
(* type.  The file input accepts PDFs only; a picked folder gives all its  *)
(* files, here a PDF and a text document.                                  *)
FlatInputs ==
  {[name |-> P_Docs, webkitRelativePath |-> EmptyStr, type |-> "application/pdf"]}

FolderInputs ==
  {[name |-> <<"b">> \o Pdf, webkitRelativePath |-> P_Docs_b,
    type |-> "application/pdf"],
   [name |-> <<"a", ".", "d", "o", "c">>, webkitRelativePath |-> P_Docs_a_doc,
    type |-> "application/msword"]}

(* What the stores hold when the application starts: nothing, or the files *)
(* and the reading progress an earlier session left.                       *)
LibraryFiles == <<[id |-> 1, path |-> P_Docs_b], [id |-> 2, path |-> P_Docs]>>

LibraryHistory == <<[fileId |-> 1, lastPage |-> 1, totalPages |-> MaxPage]>>

InitialStores ==
  {[files |-> <<>>, history |-> <<>>],
   [files |-> LibraryFiles, history |-> LibraryHistory]}

(***************************************************************************)
(* Helpers on lists of records.                                            *)
(***************************************************************************)
Ids(fs) == {fs[i].id : i \in 1..Len(fs)}

RemoveAt(s, i) == SubSeq(s, 1, i - 1) \o SubSeq(s, i + 1, Len(s))

SeqsUpTo(S, n) == UNION {[1..k -> S] : k \in 1..n}

(* The FileLists of up to n files picked from S: no file is picked twice. *)
Selections(S, n) ==
  {fl \in SeqsUpTo(S, n) : \A i, j \in 1..Len(fl) : fl[i] = fl[j] => i = j}

(* prev.filter(f => f.id !== id) *)
WithoutId(fs, id) ==
  LET Keep(f) == f.id # id IN SelectSeq(fs, Keep)

(* prev.filter(h => h.fileId !== id) *)
WithoutFileId(hs, id) ==
  LET Keep(h) == h.fileId # id IN SelectSeq(hs, Keep)

(***************************************************************************)
(* services/db: the two object stores.  dbFiles is kept in the order of    *)
(* the by-date index (createdAt), dbHistory in the order of the by-read    *)
(* index (lastReadAt); a record's timestamp is the time of its put, so a   *)
(* put places the record last.                                             *)
(***************************************************************************)
(* db.put(STORE_FILES, storedFile), keyPath id *)
PutFile(store, f) == Append(WithoutId(store, f.id), f)

(* db.put(STORE_HISTORY, history), keyPath fileId *)
PutHistory(store, h) == Append(WithoutFileId(store, h.fileId), h)

(* db.delete(STORE_FILES, id) *)
DeleteFileRecord(store, id) == WithoutId(store, id)

(* db.delete(STORE_HISTORY, id) *)
DeleteHistoryRecord(store, id) == WithoutFileId(store, id)

(***************************************************************************)
(* App: pure parts of the handlers.                                        *)
(***************************************************************************)
(* A variant of the filter's predicate that matches on the raw prefix. *)
IsUnderFolder_RawPrefix(f, folderPath) ==
  StartsWith(StripLeadingSlash(f.path), folderPath)

(* The predicate of files.filter in handleFolderDelete. *)
IsUnderFolder(f, folderPath) ==
  StartsWith(StripLeadingSlash(f.path), folderPath \o <<Slash>>)

filesToDelete(fs, folderPath) ==
  LET Under(f) == IsUnderFolder(f, folderPath) IN SelectSeq(fs, Under)

(* A variant of the updater that appends without looking for a record. *)
UpsertHistory_AlwaysAppend(prev, newItem) == Append(prev, newItem)

(* The updater given to setHistory in handlePageChange. *)
UpsertHistory(prev, newItem) ==
  IF \E i \in 1..Len(prev) : prev[i].fileId = newItem.fileId
  THEN LET existingIndex ==
             CHOOSE i \in 1..Len(prev) :
               /\ prev[i].fileId = newItem.fileId
               /\ \A j \in 1..(i - 1) : prev[j].fileId # newItem.fileId
       IN [prev EXCEPT ![existingIndex] = newItem]
  ELSE Append(prev, newItem)

(* A variant that reads the selection when the storage request is done. *)
HistoryItem_CurrentSelection(op) ==
  [fileId |-> activeFileId, lastPage |-> op.page, totalPages |-> op.total]

(* The record updateHistory puts and handlePageChange's updater builds:    *)
(* for the activeFileId of the render the handler was created in, with the *)
(* page and the total of the call.                                         *)
HistoryItem(op) ==
  [fileId |-> op.activeFileId, lastPage |-> op.page, totalPages |-> op.total]

(* A variant in which the error leaves the loop: nothing is left. *)
RestAfterError_Abandon(queue) == <<>>

(* What is left of handleFolderDelete's loop after handleFileDelete caught *)
(* an error: it returns normally, and the loop goes on with the next file. *)
RestAfterError(queue) == Tail(queue)

(* A variant of the loop's body that pushes the file whatever happened. *)
PushAlways(newFiles, storedFile, saved) == Append(newFiles, storedFile)

(* The body of the import loop: newFiles.push(storedFile) after the await, *)
(* skipped when saveFile rejected and the catch logged the error.          *)
PushIfSaved(newFiles, storedFile, saved) ==
  IF saved THEN Append(newFiles, storedFile) ELSE newFiles

(* The path handleImport and handleFolderImport store a picked file under. *)
FlatPath(file) == file.name

FolderPath(file) ==
  IF file.webkitRelativePath # EmptyStr THEN file.webkitRelativePath ELSE file.name

(* files.find(f => f.id === activeFileId) || null, as "is there one" *)
HasActiveFile == \E i \in 1..Len(files) : files[i].id = activeFileId

FolderNodePaths == {n.path : n \in {m \in AllNodes(treeData) : m.type = "folder"}}
FileNodeIds == {n.fileId : n \in {m \in AllNodes(treeData) : m.type = "file"}}

(***************************************************************************)
(* Sidebar: the expanded folders.  A folder's children are rendered only   *)
(* while the folder is expanded, so the rows that can be clicked are the   *)
(* nodes of the root level and the children of expanded, rendered folders. *)
(***************************************************************************)
(* A variant of the updater that only ever adds the path. *)
Toggle_AddOnly(prev, path) == prev \cup {path}

(* The updater given to setExpandedFolders in toggleFolder. *)
Toggle(prev, path) ==
  IF path \in prev THEN prev \ {path} ELSE prev \cup {path}

(* const isExpanded = expandedFolders.has(node.path) *)
isExpanded(node) == node.path \in expandedFolders

RECURSIVE VisibleNodes(_)
VisibleNodes(nodes) ==
  IF Len(nodes) = 0 THEN {}
  ELSE {Head(nodes)}
         \cup (IF Head(nodes).type = "folder" /\ isExpanded(Head(nodes))
               THEN VisibleNodes(Head(nodes).children) ELSE {})
         \cup VisibleNodes(Tail(nodes))

VisibleFolderPaths ==
  {n.path : n \in {m \in VisibleNodes(treeData) : m.type = "folder"}}
VisibleFileIds ==
  {n.fileId : n \in {m \in VisibleNodes(treeData) : m.type = "file"}}

(***************************************************************************)
(* services/geminiService: generateAIResponse.  The outcome of the client  *)
(* call ai.models.generateContent is a response with a text (the empty     *)
(* string standing for an empty or missing text) or a thrown error with a  *)
(* message (the empty string standing for an empty or missing message).    *)
(* A run of the function body ends in a return or in a throw.              *)
(***************************************************************************)
ErrorPrefix ==
  <<"E", "r", "r", "o", "r", ":", " ">>

ApiKeyNotFound ==
  <<"A", "P", "I", " ", "K", "e", "y", " ", "n", "o", "t", " ", "f", "o",
    "u", "n", "d">>

FailedToGenerate ==
  <<"F", "a", "i", "l", "e", "d", " ", "t", "o", " ", "g", "e", "n", "e",
    "r", "a", "t", "e", " ", "r", "e", "s", "p", "o", "n", "s", "e">>

NoResponseGenerated ==
  <<"N", "o", " ", "r", "e", "s", "p", "o", "n", "s", "e", " ", "g", "e",
    "n", "e", "r", "a", "t", "e", "d", ".">>

SomeKey == <<"k">>

ClientOutcomes ==
  {[kind |-> "text", text |-> EmptyStr],
   [kind |-> "text", text |-> <<"o", "k">>],
   [kind |-> "throw", message |-> EmptyStr],
   [kind |-> "throw", message |-> <<"4", "0", "1">>]}

(* The body of the try block. *)
TryBody(key, outcome) ==
  IF key = EmptyStr THEN [kind |-> "throw", message |-> ApiKeyNotFound]
  ELSE IF outcome.kind = "throw" THEN outcome
  ELSE [kind |-> "return",
        value |-> IF outcome.text # EmptyStr THEN outcome.text
                  ELSE NoResponseGenerated]

(* A variant without the catch block: the error goes to the caller. *)
Catch_Rethrow(done) == done

(* The catch block. *)
Catch(done) ==
  IF done.kind = "throw"
  THEN [kind |-> "return",
        value |-> ErrorPrefix \o (IF done.message # EmptyStr THEN done.message
                                  ELSE FailedToGenerate)]
  ELSE done

generateAIResponse(key, outcome) == Catch(TryBody(key, outcome))

(***************************************************************************)
(* ChatPanel.  requests are the calls of generateAIResponse that have not  *)
(* settled, each with the id of its placeholder message, as the handleSend *)
(* that awaits it holds them.  lastSend describes the last step: a send    *)
(* attempt that was accepted or rejected, or a call that settled.          *)
(***************************************************************************)
Space == " "
InputChars == {Space, "q"}
Inputs == {EmptyStr} \cup SeqsUpTo(InputChars, MaxInput)

RECURSIVE TrimStart(_)
TrimStart(s) == IF Len(s) > 0 /\ Head(s) = Space THEN TrimStart(Tail(s)) ELSE s

RECURSIVE TrimEnd(_)
TrimEnd(s) ==
  IF Len(s) > 0 /\ s[Len(s)] = Space THEN TrimEnd(SubSeq(s, 1, Len(s) - 1)) ELSE s

(* String.prototype.trim *)
Trim(s) == TrimEnd(TrimStart(s))

NoSend ==
  [kind |-> "none", by |-> "none", msgId |-> 0, outcome |-> [kind |-> "none"],
   done |-> [kind |-> "none"]]

ChatMount(key) ==
  /\ messages = <<>>
  /\ input = EmptyStr
  /\ isLoading = FALSE
  /\ requests = <<>>
  /\ nextMsgId = 1
  /\ lastSend = NoSend
  /\ apiKey = key

(* onChange of the text input, which is disabled while loading. *)
setInput(text) ==
  /\ ~isLoading
  /\ text # input
  /\ input' = text
  /\ lastSend' = NoSend
  /\ UNCHANGED <<messages, isLoading, requests, nextMsgId, apiKey>>

(* Whether the control passes the event on: the button is disabled while   *)
(* loading or with blank input, the text input while loading.              *)
Dispatches(by) ==
  IF by = "click" THEN ~(isLoading \/ Trim(input) = EmptyStr) ELSE ~isLoading

(* A variant of the guard that does not trim the input. *)
Accepts_NoTrim(text, loading) == ~(text = EmptyStr \/ loading)

(* handleSend goes past its first line: if (!input.trim() || isLoading) return *)
Accepts(text, loading) == ~(Trim(text) = EmptyStr \/ loading)

(* A click on the send button or Enter in the text input: handleSend up to *)
(* its await.                                                              *)
handleSend(by) ==
  /\ IF Dispatches(by) /\ Accepts(input, isLoading)
     THEN /\ nextMsgId + 1 <= 2 * MaxSends
          /\ messages' = messages \o
               <<[id |-> nextMsgId, role |-> "user", text |-> input,
                  isLoading |-> FALSE],
                 [id |-> nextMsgId + 1, role |-> "model", text |-> EmptyStr,
                  isLoading |-> TRUE]>>
          /\ input' = EmptyStr
          /\ isLoading' = TRUE
          /\ requests' = Append(requests, [modelMsgId |-> nextMsgId + 1,
                                           prompt |-> input])
          /\ nextMsgId' = nextMsgId + 2
          /\ lastSend' = [NoSend EXCEPT !.kind = "accepted", !.by = by,
                                        !.msgId = nextMsgId + 1]
     ELSE /\ lastSend' = [NoSend EXCEPT !.kind = "rejected", !.by = by]
          /\ UNCHANGED <<messages, input, isLoading, requests, nextMsgId>>
  /\ UNCHANGED apiKey

(* A variant of the completion that leaves the loading flag set. *)
AfterResponse_StillLoading(loading) == loading

(* setIsLoading(false) *)
AfterResponse(loading) == FALSE

(* A variant of the map that fills in the text and leaves the flag. *)
ReplacePlaceholder_TextOnly(prev, modelMsgId, responseText) ==
  [k \in 1..Len(prev) |->
     IF prev[k].id = modelMsgId
     THEN [prev[k] EXCEPT !.text = responseText]
     ELSE prev[k]]

(* The map given to setMessages when the response is in. *)
ReplacePlaceholder(prev, modelMsgId, responseText) ==
  [k \in 1..Len(prev) |->
     IF prev[k].id = modelMsgId
     THEN [prev[k] EXCEPT !.text = responseText, !.isLoading = FALSE]
     ELSE prev[k]]

(* The call of generateAIResponse of request i settles, and handleSend     *)
(* runs to its end; if the call threw, handleSend ends at the await.       *)
Respond(i, outcome) ==
  LET done == generateAIResponse(apiKey, outcome)
  IN /\ requests' = RemoveAt(requests, i)
     /\ lastSend' = [NoSend EXCEPT !.kind = "settled",
                                   !.msgId = requests[i].modelMsgId,
                                   !.outcome = outcome, !.done = done]
     /\ IF done.kind = "return"
        THEN /\ messages' = ReplacePlaceholder(messages, requests[i].modelMsgId,
                                               done.value)
             /\ isLoading' = AfterResponse(isLoading)
        ELSE UNCHANGED <<messages, isLoading>>
     /\ UNCHANGED <<input, nextMsgId, apiKey>>

(***************************************************************************)
(* PDFReader.  numPages is the page count react-pdf reported for the last  *)
(* document that finished loading (NoPages: null, none yet); pageNumber is *)
(* the page shown; docLoaded tells whether the document of the file prop   *)
(* has finished loading.  lastAct describes the reader callback of the     *)
(* last step: for a page action its offset and the page before and after,  *)
(* for every report the arguments onPageChange was called with and the     *)
(* file App writes them for.  turnedTo records the page of the last page   *)
(* action since the file was opened (0: none) and is read by no callback.  *)
(***************************************************************************)
NoPages == 0

Min(a, b) == IF a <= b THEN a ELSE b
Max(a, b) == IF a >= b THEN a ELSE b

(* The page count of a file's document: the first file of the library has  *)
(* MaxPage pages, every other file one page.                               *)
DocumentPages(id) == IF id = 1 THEN MaxPage ELSE 1

(* numPages || 1 *)
PageLimit(n) == IF n = NoPages THEN 1 ELSE n

(* The page changePage moves to. *)
NewPage(prevPageNumber, offset, n) ==
  Min(Max(1, prevPageNumber + offset), PageLimit(n))

(* App's props for the reader: file (by its id, NoFile for null) and       *)
(* initialPage.                                                            *)
activeFile == IF HasActiveFile THEN activeFileId ELSE NoFile

fileHistory == {i \in 1..Len(history) : history[i].fileId = activeFileId}

initialPage ==
  IF fileHistory # {}
  THEN history[CHOOSE i \in fileHistory : \A j \in fileHistory : i <= j].lastPage
  ELSE 1

NoAct ==
  [kind |-> "none", offset |-> 0, from |-> 0, to |-> 0, numPages |-> NoPages,
   fileId |-> NoFile, page |-> 0, total |-> 0]

(* useState of the reader when App mounts it without a file. *)
ReaderMount ==
  /\ pageNumber = 1
  /\ numPages = NoPages
  /\ docLoaded = FALSE
  /\ turnedTo = 0
  /\ lastAct = NoAct

(***************************************************************************)
(* App: the handlers.  An entry of ops is one invocation of an async       *)
(* handler, suspended at an await.  A handler reads activeFileId and files *)
(* from the render it was created in: the values at the time of the call,  *)
(* kept in the entry.  One step is the completion of the awaited storage   *)
(* request together with the handler's code up to its next await.          *)
(* lastDone describes the handler that returned in the last step: its kind *)
(* ("toggle" for toggleFolder, which is synchronous,                       *)
(* "delete" for a handleFileDelete called from a delete button, "item"     *)
(* for one called by handleFolderDelete with files left to delete,         *)
(* "folder" for the last one, with which handleFolderDelete returns too),  *)
(* the file it was about, whether its storage requests succeeded, whether  *)
(* that file was in the in-memory list before the step, for a folder the   *)
(* files matched, deleted and failed, and for an import the paths of the   *)
(* picked files and, for each, whether its save succeeded.  calls counts   *)
(* the calls of async handlers made so far.                                *)
(*                                                                         *)
(* Three variables record the run for the properties and are read by no    *)
(* handler: deletedIds, the files whose handleFileDelete returned with     *)
(* its storage requests done; lateIds, the files for which a page change   *)
(* was issued when a delete of the file was under way or done; newestPage, *)
(* for each file the page of the page change issued last (0: none, or a    *)
(* save for the file failed).                                              *)
(***************************************************************************)
NoneDone ==
  [kind |-> "none", id |-> NoFile, ok |-> TRUE, listed |-> FALSE,
   path |-> EmptyStr, matched |-> <<>>, deleted |-> {}, failed |-> {},
   input |-> <<>>, saved |-> <<>>]

loadData ==
  [kind |-> "load", gotFiles |-> FALSE, gotHistory |-> FALSE,
   loadedFiles |-> <<>>, loadedHistory |-> <<>>]

Init ==
  /\ files = <<>>
  /\ history = <<>>
  /\ activeFileId = NoFile
  /\ \E store \in InitialStores :
       /\ dbFiles = store.files
       /\ dbHistory = store.history
  /\ nextId = Len(dbFiles) + 1
  /\ ops = <<loadData>>
  /\ lastDone = NoneDone
  /\ calls = 0
  /\ ReaderMount
  /\ treeData = <<>>
  /\ expandedFolders = {}
  /\ deletedIds = {}
  /\ lateIds = {}
  /\ newestPage = [f \in 1..MaxFiles |-> 0]
  /\ ChatMount(EmptyStr)

(* getFiles() or getHistory() resolved; with both in, the state is set. *)
LoadGet(i) ==
  /\ UNCHANGED calls
  /\ ops[i].kind = "load"
  /\ \E which \in {"files", "history"} :
       LET op == IF which = "files"
                 THEN [ops[i] EXCEPT !.gotFiles = TRUE, !.loadedFiles = dbFiles]
                 ELSE [ops[i] EXCEPT !.gotHistory = TRUE, !.loadedHistory = dbHistory]
       IN /\ IF which = "files" THEN ~ops[i].gotFiles ELSE ~ops[i].gotHistory
          /\ IF op.gotFiles /\ op.gotHistory
             THEN /\ files' = op.loadedFiles
                  /\ history' = op.loadedHistory
                  /\ ops' = RemoveAt(ops, i)
                  /\ lastDone' = [NoneDone EXCEPT !.kind = "load"]
             ELSE /\ ops' = [ops EXCEPT ![i] = op]
                  /\ lastDone' = NoneDone
                  /\ UNCHANGED <<files, history>>
  /\ UNCHANGED <<activeFileId, dbFiles, dbHistory, nextId>>

(* getFiles() or getHistory() rejected: the catch logs, nothing is set. *)
LoadFail(i) ==
  /\ UNCHANGED calls
  /\ ops[i].kind = "load"
  /\ ops' = RemoveAt(ops, i)
  /\ lastDone' = [NoneDone EXCEPT !.kind = "load", !.ok = FALSE]
  /\ UNCHANGED <<files, history, activeFileId, dbFiles, dbHistory, nextId>>

(* handleImport / handleFolderImport up to the first await saveFile. *)
StartImport(paths) ==
  /\ calls < MaxCalls
  /\ calls' = calls + 1
  /\ Len(ops) < MaxOps
  /\ nextId + Len(paths) - 1 <= MaxFiles
  /\ ops' = Append(ops, [kind |-> "import", queue |-> paths, newFiles |-> <<>>,
                         input |-> paths, saved |-> <<>>])
  /\ lastDone' = NoneDone
  /\ UNCHANGED <<files, history, activeFileId, dbFiles, dbHistory, nextId>>

handleImport ==
  \E fl \in Selections(FlatInputs, MaxImport) :
    StartImport([k \in 1..Len(fl) |-> FlatPath(fl[k])])

handleFolderImport ==
  \E fl \in Selections(FolderInputs, MaxImport) :
    StartImport([k \in 1..Len(fl) |-> FolderPath(fl[k])])

(* One turn of the import loop: saveFile resolved (saved) or rejected;     *)
(* after the last file, setFiles(prev => [...prev, ...newFiles]).          *)
ImportSave(i, saved) ==
  /\ UNCHANGED calls
  /\ ops[i].kind = "import"
  /\ LET storedFile == [id |-> nextId, path |-> Head(ops[i].queue)]
         newFiles == PushIfSaved(ops[i].newFiles, storedFile, saved)
         rest == Tail(ops[i].queue)
         results == Append(ops[i].saved, saved)
     IN /\ dbFiles' = IF saved THEN PutFile(dbFiles, storedFile) ELSE dbFiles
        /\ nextId' = IF saved THEN nextId + 1 ELSE nextId
        /\ IF Len(rest) = 0
           THEN /\ files' = files \o newFiles
                /\ ops' = RemoveAt(ops, i)
                /\ lastDone' = [NoneDone EXCEPT !.kind = "import", !.ok = saved,
                                                !.input = ops[i].input,
                                                !.saved = results]
           ELSE /\ ops' = [ops EXCEPT ![i].queue = rest, ![i].newFiles = newFiles,
                                      ![i].saved = results]
                /\ lastDone' = NoneDone
                /\ UNCHANGED files
  /\ UNCHANGED <<history, activeFileId, dbHistory>>

handleFileSelect(id) ==
  /\ UNCHANGED calls
  /\ id \in VisibleFileIds
  /\ activeFileId' = id
  /\ lastDone' = NoneDone
  /\ UNCHANGED <<files, history, dbFiles, dbHistory, nextId, ops>>

(* The click on a file's delete button: handleFileDelete up to its await. *)
handleFileDelete(id) ==
  /\ calls < MaxCalls
  /\ calls' = calls + 1
  /\ id \in VisibleFileIds
  /\ Len(ops) < MaxOps
  /\ ops' = Append(ops, [kind |-> "delete", path |-> EmptyStr, matched |-> <<id>>,
                         queue |-> <<id>>, deleted |-> {}, failed |-> {},
                         activeFileId |-> activeFileId, pc |-> "files"])
  /\ lastDone' = NoneDone
  /\ UNCHANGED <<files, history, activeFileId, dbFiles, dbHistory, nextId>>

(* The click on a folder's delete button: the filter, and the first        *)
(* handleFileDelete up to its await.                                       *)
handleFolderDelete(folderPath) ==
  /\ calls < MaxCalls
  /\ calls' = calls + 1
  /\ folderPath \in VisibleFolderPaths
  /\ Len(ops) < MaxOps
  /\ LET matched == [k \in 1..Len(filesToDelete(files, folderPath)) |->
                       filesToDelete(files, folderPath)[k].id]
     IN IF Len(matched) = 0
        THEN /\ ops' = ops
             /\ lastDone' = [NoneDone EXCEPT !.kind = "folder", !.path = folderPath]
        ELSE /\ ops' = Append(ops, [kind |-> "folder", path |-> folderPath,
                                    matched |-> matched, queue |-> matched,
                                    deleted |-> {}, failed |-> {},
                                    activeFileId |-> activeFileId, pc |-> "files"])
             /\ lastDone' = NoneDone
  /\ UNCHANGED <<files, history, activeFileId, dbFiles, dbHistory, nextId>>

(* The handleFileDelete at the head of entry i has returned: the entry     *)
(* goes on with the files in rest, or is over.                             *)
DeleteReturns(i, id, ok, rest) ==
  LET failed == IF ok THEN ops[i].failed ELSE ops[i].failed \cup {id}
      deleted == IF ok THEN ops[i].deleted \cup {id} ELSE ops[i].deleted
      listed == id \in Ids(files)
  IN IF Len(rest) = 0
     THEN /\ ops' = RemoveAt(ops, i)
          /\ lastDone' = [kind |-> ops[i].kind, id |-> id, ok |-> ok,
                          listed |-> listed, path |-> ops[i].path,
                          matched |-> ops[i].matched,
                          deleted |-> deleted, failed |-> failed,
                          input |-> <<>>, saved |-> <<>>]
     ELSE /\ ops' = [ops EXCEPT ![i].queue = rest, ![i].deleted = deleted,
                                ![i].failed = failed, ![i].pc = "files"]
          /\ lastDone' = [NoneDone EXCEPT !.kind = "item", !.id = id, !.ok = ok,
                                          !.listed = listed]

(* deleteFile: db.delete(STORE_FILES, id) resolved. *)
DeleteFromFiles(i) ==
  /\ UNCHANGED calls
  /\ ops[i].kind \in {"delete", "folder"}
  /\ ops[i].pc = "files"
  /\ dbFiles' = DeleteFileRecord(dbFiles, Head(ops[i].queue))
  /\ ops' = [ops EXCEPT ![i].pc = "history"]
  /\ lastDone' = NoneDone
  /\ UNCHANGED <<files, history, activeFileId, dbHistory, nextId>>

(* deleteFile: db.delete(STORE_HISTORY, id) resolved, and handleFileDelete *)
(* runs to its end.                                                        *)
DeleteFromHistory(i) ==
  /\ UNCHANGED calls
  /\ ops[i].kind \in {"delete", "folder"}
  /\ ops[i].pc = "history"
  /\ LET id == Head(ops[i].queue)
     IN /\ dbHistory' = DeleteHistoryRecord(dbHistory, id)
        /\ files' = WithoutId(files, id)
        /\ history' = WithoutFileId(history, id)
        /\ activeFileId' = IF ops[i].activeFileId = id THEN NoFile ELSE activeFileId
        /\ DeleteReturns(i, id, TRUE, Tail(ops[i].queue))
  /\ UNCHANGED <<dbFiles, nextId>>

(* deleteFile rejected, at either delete: the catch of handleFileDelete. *)
DeleteFails(i) ==
  /\ UNCHANGED calls
  /\ ops[i].kind \in {"delete", "folder"}
  /\ DeleteReturns(i, Head(ops[i].queue), FALSE, RestAfterError(ops[i].queue))
  /\ UNCHANGED <<files, history, activeFileId, dbFiles, dbHistory, nextId>>

(* handlePageChange up to its await. *)
IssuePageChange(page, total) ==
  /\ activeFileId # NoFile
  /\ HasActiveFile
  /\ Len(ops) < MaxOps
  /\ ops' = Append(ops, [kind |-> "page", activeFileId |-> activeFileId,
                         page |-> page, total |-> total])
  /\ lastDone' = NoneDone
  /\ UNCHANGED <<files, history, activeFileId, dbFiles, dbHistory, nextId>>

(* The reader reports a page of the open file.  The library's            *)
(* specification leaves the reader's state out: any page of a document of  *)
(* MaxPage pages may be reported.                                          *)
handlePageChange(page, total) ==
  /\ calls < MaxCalls
  /\ calls' = calls + 1
  /\ IssuePageChange(page, total)

(* updateHistory resolved (saved) or rejected. *)
PageSaved(i, saved) ==
  /\ UNCHANGED calls
  /\ ops[i].kind = "page"
  /\ LET newItem == HistoryItem(ops[i])
     IN /\ dbHistory' = IF saved THEN PutHistory(dbHistory, newItem) ELSE dbHistory
        /\ history' = IF saved THEN UpsertHistory(history, newItem) ELSE history
  /\ ops' = RemoveAt(ops, i)
  /\ lastDone' = [NoneDone EXCEPT !.kind = "page", !.id = ops[i].activeFileId,
                                  !.ok = saved]
  /\ UNCHANGED <<files, activeFileId, dbFiles, nextId>>

Handlers ==
  \/ \E i \in 1..Len(ops) : LoadGet(i)
  \/ \E i \in 1..Len(ops) : LoadFail(i)
  \/ handleImport
  \/ handleFolderImport
  \/ \E i \in 1..Len(ops), saved \in BOOLEAN : ImportSave(i, saved)
  \/ \E id \in VisibleFileIds : handleFileSelect(id)
  \/ \E id \in VisibleFileIds : handleFileDelete(id)
  \/ \E folderPath \in VisibleFolderPaths : handleFolderDelete(folderPath)
  \/ \E i \in 1..Len(ops) : DeleteFromFiles(i)
  \/ \E i \in 1..Len(ops) : DeleteFromHistory(i)
  \/ \E i \in 1..Len(ops) : DeleteFails(i)
  \/ \E page \in 1..MaxPage : handlePageChange(page, MaxPage)
  \/ \E i \in 1..Len(ops), saved \in BOOLEAN : PageSaved(i, saved)

(* The click on a folder's row. *)
toggleFolder(path) ==
  /\ path \in VisibleFolderPaths
  /\ expandedFolders' = Toggle(expandedFolders, path)
  /\ lastDone' = [NoneDone EXCEPT !.kind = "toggle", !.path = path]
  /\ UNCHANGED <<files, history, activeFileId, dbFiles, dbHistory, nextId, ops, calls>>

(* A delete of file id is under way: called, or waiting in a folder's loop. *)
DeleteUnderWay(id) ==
  \E i \in 1..Len(ops) :
    /\ ops[i].kind \in {"delete", "folder"}
    /\ \E k \in 1..Len(ops[i].queue) : ops[i].queue[k] = id

(* The record of the run, from the step's handler call or return. *)
Observe ==
  LET issued == Len(ops') > Len(ops) /\ ops'[Len(ops')].kind = "page"
      op == ops'[Len(ops')]
  IN /\ deletedIds' =
          IF lastDone'.kind \in {"delete", "item", "folder"}
             /\ lastDone'.ok /\ lastDone'.id # NoFile
          THEN deletedIds \cup {lastDone'.id} ELSE deletedIds
     /\ lateIds' =
          IF issued /\ (DeleteUnderWay(op.activeFileId)
                          \/ op.activeFileId \in deletedIds)
          THEN lateIds \cup {op.activeFileId} ELSE lateIds
     /\ newestPage' =
          IF issued THEN [newestPage EXCEPT ![op.activeFileId] = op.page]
          ELSE IF lastDone'.kind = "page" /\ ~lastDone'.ok
               THEN [newestPage EXCEPT ![lastDone'.id] = 0]
               ELSE newestPage

Steps ==
  \/ Handlers /\ UNCHANGED expandedFolders
  \/ \E path \in VisibleFolderPaths : toggleFolder(path)

Next == Steps /\ Render /\ Observe /\ UNCHANGED chatVars /\ UNCHANGED readerVars

Spec == Init /\ [][Next]_vars

(***************************************************************************)
(* The tree builder on its own: the file list grows one record at a time,  *)
(* or is the four-file library of the scenarios.                           *)
(***************************************************************************)
AppIdle ==
  /\ files = <<>>
  /\ history = <<>>
  /\ activeFileId = NoFile
  /\ dbFiles = <<>>
  /\ dbHistory = <<>>
  /\ nextId = 1
  /\ ops = <<>>
  /\ lastDone = NoneDone
  /\ calls = 0
  /\ ReaderMount
  /\ treeData = <<>>
  /\ expandedFolders = {}
  /\ deletedIds = {}
  /\ lateIds = {}
  /\ newestPage = [f \in 1..MaxFiles |-> 0]

TreeInit == AppIdle /\ ChatMount(EmptyStr)

TreeAdd(path) ==
  /\ Len(files) < MaxTreeFiles
  /\ files' = Append(files, [id |-> Len(files) + 1, path |-> path])
  /\ UNCHANGED <<history, activeFileId, dbFiles, dbHistory, nextId, ops, lastDone, calls>>

TreeScenario ==
  /\ files = <<>>
  /\ files' = ScenarioFiles
  /\ UNCHANGED <<history, activeFileId, dbFiles, dbHistory, nextId, ops, lastDone, calls>>

TreeChange ==
  \/ \E path \in TreePaths : TreeAdd(path)
  \/ TreeScenario

TreeNext ==
  /\ TreeChange
  /\ Render
  /\ UNCHANGED <<expandedFolders, deletedIds, lateIds, newestPage>>
  /\ UNCHANGED chatVars
  /\ UNCHANGED readerVars

TreeSpec == TreeInit /\ [][TreeNext]_vars

(***************************************************************************)
(* The chat panel on its own, as the earlier App mounted it: the library   *)
(* is left alone.  The API key is there or not for the whole run.          *)
(***************************************************************************)
ChatInit == AppIdle /\ \E key \in {EmptyStr, SomeKey} : ChatMount(key)

ChatSteps ==
  \/ \E text \in Inputs : setInput(text)
  \/ \E by \in {"click", "enter"} : handleSend(by)
  \/ \E i \in 1..Len(requests), outcome \in ClientOutcomes : Respond(i, outcome)

ChatNext == ChatSteps /\ UNCHANGED appVars /\ UNCHANGED readerVars

ChatSpec == ChatInit /\ [][ChatNext]_vars

(* Every call of the client settles: fulfilled or rejected. *)
ChatFairSpec ==
  ChatSpec /\ WF_vars(\E i \in 1..Len(requests), outcome \in ClientOutcomes :
                         Respond(i, outcome) /\ UNCHANGED appVars
                           /\ UNCHANGED readerVars)

(***************************************************************************)
(* The reader with a library of two files at the top level, loaded at      *)
(* startup, with or without a progress record for the first file.  One     *)
(* step is one event of the reader or of App together with the render and  *)
(* the effects that follow it: the reset effect of the reader runs when    *)
(* the file prop or initialPage differs from the render before, and a new  *)
(* file prop makes the Document load anew.                                 *)
(***************************************************************************)
ReaderFiles == <<[id |-> 1, path |-> P_a], [id |-> 2, path |-> P_B]>>

ReaderHistories ==
  {<<>>} \cup {<<[fileId |-> 1, lastPage |-> p, totalPages |-> MaxPage]>> : p \in 1..MaxPage}

ReaderInit ==
  /\ files = ReaderFiles
  /\ dbFiles = ReaderFiles
  /\ \E hs \in ReaderHistories : history = hs /\ dbHistory = hs
  /\ activeFileId = NoFile
  /\ nextId = Len(ReaderFiles) + 1
  /\ ops = <<>>
  /\ lastDone = NoneDone
  /\ calls = 0
  /\ treeData = buildTree(ReaderFiles)
  /\ expandedFolders = {}
  /\ deletedIds = {}
  /\ lateIds = {}
  /\ newestPage = [f \in 1..MaxFiles |-> 0]
  /\ ChatMount(EmptyStr)
  /\ ReaderMount

(* The render after the step and its effects, for a step whose callback    *)
(* left the page at pn and the document loaded or not.                     *)
Commit(pn, loaded) ==
  /\ pageNumber' = IF activeFile' # activeFile \/ initialPage' # initialPage
                   THEN initialPage' ELSE pn
  /\ docLoaded' = IF activeFile' # activeFile THEN FALSE ELSE loaded

ReaderSelect(id) ==
  /\ handleFileSelect(id)
  /\ Commit(pageNumber, docLoaded)
  /\ turnedTo' = IF id # activeFileId THEN 0 ELSE turnedTo
  /\ lastAct' = NoAct
  /\ UNCHANGED numPages

(* react-pdf finished loading the document of the file prop. *)
onDocumentLoadSuccess ==
  /\ HasActiveFile
  /\ ~docLoaded
  /\ numPages' = DocumentPages(activeFile)
  /\ IssuePageChange(pageNumber, numPages')
  /\ Commit(pageNumber, TRUE)
  /\ lastAct' = [NoAct EXCEPT !.kind = "load", !.from = pageNumber,
                              !.to = pageNumber, !.numPages = numPages,
                              !.fileId = activeFileId, !.page = pageNumber,
                              !.total = numPages']
  /\ UNCHANGED <<calls, turnedTo>>

changePage(offset, by) ==
  /\ HasActiveFile
  /\ LET newPage == NewPage(pageNumber, offset, numPages)
     IN /\ IssuePageChange(newPage, PageLimit(numPages))
        /\ Commit(newPage, docLoaded)
        /\ turnedTo' = newPage
        /\ lastAct' = [NoAct EXCEPT !.kind = by, !.offset = offset,
                                    !.from = pageNumber, !.to = newPage,
                                    !.numPages = numPages,
                                    !.fileId = activeFileId, !.page = newPage,
                                    !.total = PageLimit(numPages)]
  /\ UNCHANGED <<calls, numPages>>

(* The toolbar's buttons, disabled at the first and at the last page. *)
PreviousButton == pageNumber > 1 /\ changePage(-1, "button")

NextButton == pageNumber < PageLimit(numPages) /\ changePage(1, "button")

(* A horizontal swipe longer than minSwipeDistance. *)
onTouchEnd(isLeftSwipe) ==
  IF isLeftSwipe
  THEN pageNumber < PageLimit(numPages) /\ changePage(1, "swipe")
  ELSE pageNumber > 1 /\ changePage(-1, "swipe")

(* A tap on the left or on the right zone. *)
handleZoneClick(direction) ==
  changePage(IF direction = "left" THEN -1 ELSE 1, "zone")

ReaderPageSaved(i, saved) ==
  /\ PageSaved(i, saved)
  /\ Commit(pageNumber, docLoaded)
  /\ lastAct' = NoAct
  /\ UNCHANGED <<numPages, turnedTo>>

ReaderSteps ==
  \/ \E id \in VisibleFileIds : ReaderSelect(id)
  \/ onDocumentLoadSuccess
  \/ PreviousButton
  \/ NextButton
  \/ \E isLeftSwipe \in BOOLEAN : onTouchEnd(isLeftSwipe)
  \/ \E direction \in {"left", "right"} : handleZoneClick(direction)
  \/ \E i \in 1..Len(ops), saved \in BOOLEAN : ReaderPageSaved(i, saved)

ReaderNext ==
  /\ ReaderSteps
  /\ Render
  /\ Observe
  /\ UNCHANGED expandedFolders
  /\ UNCHANGED chatVars

ReaderSpec == ReaderInit /\ [][ReaderNext]_vars

(***************************************************************************)
(* Properties of the tree builder and of the folder selection (TreeSpec).  *)
(***************************************************************************)
HasPath(path) == \E i \in 1..Len(files) : files[i].path = path

NodesFor(id) ==
  {k \in 1..Len(FileNodes(treeData)) : FileNodes(treeData)[k].fileId = id}

(* C1: the forest holds exactly one file node per input record: every      *)
(* record's id is the fileId of exactly one file node, also when two       *)
(* records have the same path.                                             *)
C1_OneFileNodePerRecord ==
  /\ Len(FileNodes(treeData)) = Len(files)
  /\ \A i \in 1..Len(files) : Cardinality(NodesFor(files[i].id)) = 1

Permuted(fs, perm) == [i \in 1..Len(fs) |-> fs[perm[i]]]

(* C2: the forest does not depend on the order of the input list: every    *)
(* permutation of the list builds the same forest.                         *)
C2_OrderIndependent ==
  \A perm \in Permutations(1..Len(files)) :
    buildTree(Permuted(files, perm)) = treeData

(* The forest does not depend on the order of the input list when no two   *)
(* records have the same path: the order matters through C1's case only.   *)
C2_OrderIndependentDistinctPaths ==
  (\A i, j \in 1..Len(files) : files[i].path = files[j].path => i = j)
    => C2_OrderIndependent

IsProperPrefix(a, b) == Len(a) < Len(b) /\ SubSeq(b, 1, Len(a)) = a

SelectedIds(folderPath) == Ids(filesToDelete(files, folderPath))

(* C3: the folder selection is anchored on whole path segments: a selected *)
(* file's segments start with all the segments of the folder path, so that *)
(* folder Foo selects Foo/x.pdf and Foo/Sub/y.pdf and never                *)
(* Foobar/x.pdf.                                                           *)
C3_SelectionAnchoredOnSegment ==
  \A folderPath \in FolderNodePaths \cup {P_Foo} :
    \A i \in 1..Len(files) :
      /\ files[i].id \in SelectedIds(folderPath)
           => IsProperPrefix(Split(folderPath),
                             Split(StripLeadingSlash(files[i].path)))
      /\ folderPath = P_Foo /\ files[i].path \in {P_Foo_x, P_Foo_Sub_y}
           => files[i].id \in SelectedIds(folderPath)
      /\ folderPath = P_Foo /\ files[i].path = P_Foobar_x
           => files[i].id \notin SelectedIds(folderPath)

C3_Witness ==
  /\ HasPath(P_Foo_x) /\ HasPath(P_Foo_Sub_y) /\ HasPath(P_Foobar_x)
  /\ P_Foo \in FolderNodePaths
  /\ Cardinality(SelectedIds(P_Foo)) = 2

(* C4: the folder selection includes a file whose path is the folder path  *)
(* itself.                                                                 *)
C4_SelectsExactPath ==
  \A folderPath \in FolderNodePaths :
    \A i \in 1..Len(files) :
      files[i].path = folderPath => files[i].id \in SelectedIds(folderPath)

(* The code units of the characters, for the order of "<" on strings. *)
CodeUnits ==
  [c \in Alphabet |->
     CASE c = "." -> 46 [] c = "/" -> 47 [] c = "2" -> 50
       [] c = "B" -> 66 [] c = "D" -> 68 [] c = "F" -> 70 [] c = "S" -> 83
       [] c = "a" -> 97 [] c = "b" -> 98 [] c = "c" -> 99 [] c = "d" -> 100
       [] c = "f" -> 102 [] c = "o" -> 111 [] c = "p" -> 112 [] c = "r" -> 114
       [] c = "s" -> 115 [] c = "u" -> 117 [] c = "x" -> 120 [] c = "y" -> 121]

FoldersFirst(level) ==
  \A i, j \in 1..Len(level) :
    level[i].type = "folder" /\ level[j].type = "file" => i < j

Levels == {treeData} \cup {n.children : n \in AllNodes(treeData)}

File(name, path, id) ==
  [name |-> name, path |-> path, type |-> "file", children |-> <<>>, fileId |-> id]

Folder(name, path, children) ==
  [name |-> name, path |-> path, type |-> "folder", children |-> children,
   fileId |-> NoFile]

ScenarioForest ==
  << Folder(P_Docs, P_Docs,
            << Folder(<<"S", "u", "b">>, P_Docs \o <<Slash, "S", "u", "b">>,
                      << File(<<"c">> \o Pdf, P_Docs_Sub_c, 3) >>),
               File(<<"b">> \o Pdf, P_Docs_b, 2) >>),
     Folder(P_Docs \o <<"2">>, P_Docs \o <<"2">>,
            << File(<<"d">> \o Pdf, P_Docs2_d, 4) >>),
     File(P_a, P_a, 1) >>

(* C5 as stated: on every level the folders come before the files, and     *)
(* within each kind the names ascend in case-sensitive lexicographic       *)
(* (code unit) order; the four-file scenario builds Docs, Docs2, a.pdf.    *)
C5_SortedByCodeUnits ==
  /\ \A level \in Levels :
       /\ FoldersFirst(level)
       /\ \A i, j \in 1..Len(level) :
            i < j /\ level[i].type = level[j].type
              => CompareBy(level[i].name, level[j].name, CodeUnits) <= 0
  /\ files = ScenarioFiles => treeData = ScenarioForest

(* C5, amended: on every level the folders come before the files, and      *)
(* within each kind the names ascend in the order of localeCompare; the    *)
(* four-file scenario builds Docs, Docs2, a.pdf.                           *)
C5_SortedByLocaleCompare ==
  /\ \A level \in Levels :
       /\ FoldersFirst(level)
       /\ \A i, j \in 1..Len(level) :
            i < j /\ level[i].type = level[j].type
              => LocaleCompare(level[i].name, level[j].name) <= 0
  /\ files = ScenarioFiles => treeData = ScenarioForest

C5_Witness ==
  /\ files = ScenarioFiles
  /\ Len(treeData) = 3
  /\ Len(treeData[1].children) = 2

(* C7: no node of the forest has the empty string as its name. *)
C7_NoEmptyName == \A n \in AllNodes(treeData) : n.name # EmptyStr

(***************************************************************************)
(* Properties of the application shell (Spec).                             *)
(***************************************************************************)
(* "At or beneath" a folder path: the path itself, or a path that starts   *)
(* with the folder path and a slash.                                       *)
AtOrBeneath(path, folderPath) ==
  path = folderPath \/ StartsWith(path, folderPath \o <<Slash>>)

PathsAtOrBeneath(fs, folderPath) ==
  {i \in 1..Len(fs) : AtOrBeneath(fs[i].path, folderPath)}

(* C6: when handleFolderDelete for a folder path has returned and no       *)
(* storage request failed, neither the in-memory list nor the files store  *)
(* holds a file at or beneath that path.                                   *)
C6_FolderDeleteRemovesSubtree ==
  lastDone.kind = "folder" /\ lastDone.failed = {}
    => /\ PathsAtOrBeneath(files, lastDone.path) = {}
       /\ PathsAtOrBeneath(dbFiles, lastDone.path) = {}

RecordsFor(hs, id) == {i \in 1..Len(hs) : hs[i].fileId = id}

OneRecordPerFile(hs) ==
  \A i, j \in 1..Len(hs) : hs[i].fileId = hs[j].fileId => i = j

(* C8: the progress store and the in-memory progress list each hold at     *)
(* most one record per fileId, and when a page change has been saved they  *)
(* hold exactly one record for its file, with the page it reported.        *)
C8_OneProgressRecordPerFile ==
  /\ OneRecordPerFile(history)
  /\ OneRecordPerFile(dbHistory)
  /\ lastDone.kind = "page" /\ lastDone.ok
       => /\ Cardinality(RecordsFor(history, lastDone.id)) = 1
          /\ Cardinality(RecordsFor(dbHistory, lastDone.id)) = 1

(* A page change for file 1, which had a record with lastPage 1 from the   *)
(* earlier session, has replaced that record in the store and in memory.   *)
C8_Witness ==
  /\ lastDone.kind = "page" /\ lastDone.ok /\ lastDone.id = 1
  /\ history = <<[fileId |-> 1, lastPage |-> 2, totalPages |-> MaxPage]>>
  /\ dbHistory = history

(* C9: when a handleFileDelete called for file f has returned with its     *)
(* storage requests done, f is in neither the files store nor the          *)
(* in-memory list, and f is not the active selection.                      *)
C9_DeleteClearsSelection ==
  lastDone.kind = "delete" /\ lastDone.ok
    => /\ lastDone.id \notin Ids(dbFiles)
       /\ lastDone.id \notin Ids(files)
       /\ activeFileId # lastDone.id

(* The part of C9 that does not depend on the selection. *)
C9_DeleteRemovesFile ==
  lastDone.kind = "delete" /\ lastDone.ok
    => /\ lastDone.id \notin Ids(dbFiles)
       /\ lastDone.id \notin Ids(files)

(* C10: handleFolderDelete attempts the delete of every matched file,      *)
(* whatever failed before it: when it returns, each matched file was       *)
(* deleted or failed.  A file whose delete succeeded is out of the         *)
(* in-memory list when its handleFileDelete returns, and a file whose      *)
(* delete failed is still in it.                                           *)
C10_FolderDeleteIndependent ==
  /\ lastDone.kind = "folder"
       => lastDone.deleted \cup lastDone.failed
            = {lastDone.matched[k] : k \in 1..Len(lastDone.matched)}
  /\ lastDone.kind \in {"item", "folder"} /\ lastDone.id # NoFile
       => IF lastDone.ok THEN lastDone.id \notin Ids(files)
          ELSE lastDone.listed => lastDone.id \in Ids(files)

(* A folder delete of two files has returned: the delete of the first     *)
(* matched file failed, the second was deleted after it.                   *)
C10_Witness ==
  /\ lastDone.kind = "folder"
  /\ Len(lastDone.matched) = 2
  /\ lastDone.failed = {lastDone.matched[1]}
  /\ lastDone.deleted = {lastDone.matched[2]}
  /\ lastDone.matched[1] \in Ids(files)
  /\ lastDone.matched[2] \notin Ids(files)

(* C11: a file's progress record is deleted with the file: when the delete *)
(* of file f has returned with its storage requests done and no storage    *)
(* request is in flight, neither the progress store nor the in-memory      *)
(* progress list holds a record for f; the page changes for f were all     *)
(* issued before the delete.                                               *)
C11_ProgressDeletedWithFile ==
  ops = <<>>
    => \A f \in deletedIds \ lateIds :
         /\ RecordsFor(dbHistory, f) = {}
         /\ RecordsFor(history, f) = {}

(***************************************************************************)
(* Properties of the AI service and of the chat panel (ChatSpec).          *)
(***************************************************************************)
(* C12: generateAIResponse never raises to its caller: every call returns; *)
(* when the API key is missing or the client call threw, the returned      *)
(* string begins with "Error: "; otherwise it is the generated text, or    *)
(* the fixed non-empty fallback when the text is empty.                    *)
C12_NeverRaises ==
  lastSend.kind = "settled"
    => LET failed == apiKey = EmptyStr \/ lastSend.outcome.kind = "throw"
       IN /\ lastSend.done.kind = "return"
          /\ lastSend.done.value # EmptyStr
          /\ failed => StartsWith(lastSend.done.value, ErrorPrefix)
          /\ ~failed
               => lastSend.done.value =
                    IF lastSend.outcome.text # EmptyStr THEN lastSend.outcome.text
                    ELSE NoResponseGenerated

(* With the key in place the client call threw an error without a message, *)
(* and the caller got "Error: Failed to generate response".                *)
C12_Witness ==
  /\ lastSend.kind = "settled"
  /\ apiKey = SomeKey
  /\ lastSend.outcome = [kind |-> "throw", message |-> EmptyStr]
  /\ lastSend.done = [kind |-> "return", value |-> ErrorPrefix \o FailedToGenerate]

MsgIds == 1..(2 * MaxSends)

MessagesWith(m) == {k \in 1..Len(messages) : messages[k].id = m}

IsPending(m) == \E k \in MessagesWith(m) : messages[k].isLoading

IsAnswered(m) ==
  /\ MessagesWith(m) # {}
  /\ \A k \in MessagesWith(m) : ~messages[k].isLoading
  /\ ~isLoading

(* C13: every accepted send ends with its placeholder replaced by the text *)
(* the AI call returned, an error string included, marked not loading, and *)
(* with the panel's loading flag cleared; no message leaves the            *)
(* transcript, and the completion changes no other message.                *)
C13_SendEndsWithResponse ==
  /\ \A m \in MsgIds : IsPending(m) ~> IsAnswered(m)
  /\ [][/\ Len(messages') >= Len(messages)
        /\ \A k \in 1..Len(messages) : messages'[k].id = messages[k].id
        /\ lastSend'.kind = "settled"
             => /\ lastSend'.done.kind = "return"
                /\ ~isLoading'
                /\ Len(messages') = Len(messages)
                /\ \E k \in 1..Len(messages) : messages[k].id = lastSend'.msgId
                /\ \A k \in 1..Len(messages) :
                     IF messages[k].id = lastSend'.msgId
                     THEN /\ messages'[k].text = lastSend'.done.value
                          /\ ~messages'[k].isLoading
                          /\ messages'[k].role = "model"
                     ELSE messages'[k] = messages[k]]_vars

(* The second send of a run was answered with an error string, and the     *)
(* first turn is still in the transcript.                                  *)
C13_Witness ==
  /\ lastSend.kind = "settled"
  /\ Len(messages) = 4
  /\ messages[4].id = lastSend.msgId
  /\ StartsWith(messages[4].text, ErrorPrefix)
  /\ ~messages[4].isLoading
  /\ ~isLoading

(* C14: at most one chat request is outstanding: while a call of the AI    *)
(* function has not settled, and whenever the input is empty or blank, a   *)
(* step starts no call and appends nothing to the transcript.             *)
C14_OneOutstandingRequest ==
  /\ [](Len(requests) <= 1)
  /\ [][(Len(requests) > 0 \/ Trim(input) = EmptyStr)
          => /\ Len(requests') <= Len(requests)
             /\ Len(messages') = Len(messages)]_vars

(* A send attempt was made while a request was outstanding, and rejected. *)
C14_Witness ==
  /\ lastSend.kind = "rejected"
  /\ Len(requests) = 1
  /\ isLoading

(***************************************************************************)
(* Further properties of the application shell (Spec).                     *)
(***************************************************************************)
EndsWith(s, p) ==
  /\ Len(p) <= Len(s)
  /\ SubSeq(s, Len(s) - Len(p) + 1, Len(s)) = p

(* A picked file is a PDF by its MIME type or by its name's extension. *)
IsPdf(file) ==
  \/ file.type = "application/pdf"
  \/ EndsWith([k \in 1..Len(file.name) |-> ToLower(file.name[k])], Pdf)

NonPdfPaths == {FolderPath(file) : file \in {g \in FolderInputs : ~IsPdf(g)}}

(* C15: a file of a folder import that is not a PDF is filtered out before *)
(* persistence: no such file is in the files store or in the in-memory     *)
(* file list.                                                              *)
C15_NonPdfFilteredOut ==
  /\ \A k \in 1..Len(dbFiles) : dbFiles[k].path \notin NonPdfPaths
  /\ \A k \in 1..Len(files) : files[k].path \notin NonPdfPaths

RECURSIVE SavedPaths(_, _)
(* The paths of the picked files whose save succeeded, in input order. *)
SavedPaths(paths, saved) ==
  IF Len(paths) = 0 THEN <<>>
  ELSE (IF Head(saved) THEN <<Head(paths)>> ELSE <<>>)
         \o SavedPaths(Tail(paths), Tail(saved))

(* C16: a storage failure leaves the visible state as it was for the       *)
(* failed item: the step with which an import returns appends to the       *)
(* in-memory list the files whose save succeeded, in input order, and      *)
(* nothing for a file whose save failed; the step with which a             *)
(* handleFileDelete returns after a failed storage delete changes neither  *)
(* the in-memory file list, nor the in-memory progress list, nor the       *)
(* active selection.                                                       *)
C16_FailureLeavesStateAsItWas ==
  [][/\ lastDone'.kind = "import"
          => LET added == SavedPaths(lastDone'.input, lastDone'.saved)
             IN /\ Len(files') = Len(files) + Len(added)
                /\ SubSeq(files', 1, Len(files)) = files
                /\ \A k \in 1..Len(added) :
                     files'[Len(files) + k].path = added[k]
     /\ lastDone'.kind \in {"delete", "item", "folder"} /\ ~lastDone'.ok
          => /\ files' = files
             /\ history' = history
             /\ activeFileId' = activeFileId]_vars

(* An import of two files has returned: the save of the first failed, the  *)
(* second was saved and is the one file of the list.                       *)
C16_Witness ==
  /\ lastDone.kind = "import"
  /\ lastDone.saved = <<FALSE, TRUE>>
  /\ Len(files) = 1
  /\ files[1].path = lastDone.input[2]

Flip(set, path) == (set \ {path}) \cup ({path} \ set)

(* The children of a rendered folder are rendered when the folder is       *)
(* expanded, and only then.                                                *)
RendersExpanded(node) ==
  \A k \in 1..Len(node.children) : node.children[k] \in VisibleNodes(treeData)

PageInFlight(f) ==
  \E i \in 1..Len(ops) : ops[i].kind = "page" /\ ops[i].activeFileId = f

(* C18: a completion of an older page change never overwrites the          *)
(* in-memory progress of a newer one: when a progress upsert for file f    *)
(* has been saved, none for f is in flight and none for f failed, the      *)
(* in-memory record of f has the page of the page change issued last.      *)
C18_NewestPageWins ==
  lastDone.kind = "page" /\ lastDone.ok
  /\ ~PageInFlight(lastDone.id) /\ newestPage[lastDone.id] # 0
    => \A k \in RecordsFor(history, lastDone.id) :
         history[k].lastPage = newestPage[lastDone.id]

OtherRecords(hs, f) ==
  LET Other(h) == h.fileId # f IN SelectSeq(hs, Other)

(* C19: a progress upsert is written for the file that was the active      *)
(* selection when the page change was issued: the call keeps that file's   *)
(* id; the step with which the call returns leaves the records of every    *)
(* other file as they were, in the store and in memory, whatever the       *)
(* selection is by then; and a step that is not the return of a page       *)
(* change adds no progress record.  No call holds "no file", and no        *)
(* record is written for it.                                               *)
C19_UpsertForFileActiveAtIssue ==
  /\ [](/\ \A i \in 1..Len(ops) : ops[i].kind = "page" => ops[i].activeFileId # NoFile
        /\ RecordsFor(dbHistory, NoFile) = {}
        /\ RecordsFor(history, NoFile) = {})
  /\ [][/\ Len(ops') > Len(ops) /\ ops'[Len(ops')].kind = "page"
             => ops'[Len(ops')].activeFileId = activeFileId
        /\ lastDone'.kind = "page"
             => /\ \E i \in 1..Len(ops) :
                     /\ ops[i].kind = "page"
                     /\ ops[i].activeFileId = lastDone'.id
                     /\ ops' = RemoveAt(ops, i)
                /\ OtherRecords(dbHistory', lastDone'.id)
                     = OtherRecords(dbHistory, lastDone'.id)
                /\ OtherRecords(history', lastDone'.id)
                     = OtherRecords(history, lastDone'.id)
        /\ lastDone'.kind # "page"
             => /\ \A k \in 1..Len(dbHistory') :
                     \E j \in 1..Len(dbHistory) : dbHistory[j] = dbHistory'[k]
                /\ lastDone'.kind # "load"
                     => \A k \in 1..Len(history') :
                          \E j \in 1..Len(history) : history[j] = history'[k]]_vars

(* A page change was issued while file 2 was active, file 1 was selected   *)
(* before the write was done, and the write has made a record for file 2   *)
(* and left the record of file 1 at its page.                              *)
C19_Witness ==
  /\ lastDone.kind = "page" /\ lastDone.ok /\ lastDone.id = 2
  /\ activeFileId = 1
  /\ history = <<[fileId |-> 1, lastPage |-> 1, totalPages |-> MaxPage],
                 [fileId |-> 2, lastPage |-> 2, totalPages |-> MaxPage]>>
  /\ dbHistory = history

(* C20: the in-memory file list never holds two entries with the same id,  *)
(* for every interleaving of the startup load with imports and deletions.  *)
C20_NoDuplicateIds ==
  \A i, j \in 1..Len(files) : files[i].id = files[j].id => i = j

(* C21: whenever no storage request is in flight, the in-memory file list  *)
(* and the files store hold the same file ids.                             *)
C21_ListMirrorsStore ==
  ops = <<>> => Ids(files) = Ids(dbFiles)

(* The part of C21 about a single delete: when a handleFileDelete called   *)
(* for a listed file has returned and nothing is in flight, the file is in *)
(* the list exactly if it is in the store.                                 *)
C21_DeletedFileAgrees ==
  ops = <<>> /\ lastDone.kind = "delete" /\ lastDone.listed
    => (lastDone.id \in Ids(files) <=> lastDone.id \in Ids(dbFiles))


(* C22: in every state with no handler in progress, the active selection   *)
(* is none or the id of a file in the in-memory file list.                 *)
C22_SelectionIsListed ==
  ops = <<>> => activeFileId = NoFile \/ activeFileId \in Ids(files)


(***************************************************************************)
(* Properties of the reader (ReaderSpec).                                  *)
(***************************************************************************)
(* C23: every report of the reader has 1 <= lastPage <= totalPages, with   *)
(* totalPages the page count of the file the report is written for.        *)
C23_ReportWithinDocument ==
  lastAct.kind # "none"
    => /\ 1 <= lastAct.page
       /\ lastAct.page <= lastAct.total
       /\ lastAct.total = DocumentPages(lastAct.fileId)

(* The part of C23 about the document that has finished loading: reports   *)
(* made once the open file's document is loaded.                           *)
C23_ReportAfterLoad ==
  lastAct.kind # "none" /\ docLoaded
    => /\ 1 <= lastAct.page
       /\ lastAct.page <= lastAct.total
       /\ lastAct.total = DocumentPages(lastAct.fileId)


(* C24: a next or previous page action leaves the page number unchanged or *)
(* moves it by exactly one page in the requested direction, and the page   *)
(* it ends on is within 1..numPages (within the pages of the file's        *)
(* document, when numPages is not known yet).                              *)
IsPageAction == lastAct.kind \in {"button", "zone", "swipe"}

C24_OneStepInDirection ==
  IsPageAction
    => /\ lastAct.to = lastAct.from \/ lastAct.to = lastAct.from + lastAct.offset
       /\ 1 <= lastAct.to
       /\ lastAct.to <= (IF lastAct.numPages # NoPages THEN lastAct.numPages
                         ELSE DocumentPages(lastAct.fileId))

(* The same for the actions made when the page count is known. *)
C24_OneStepWhenCountKnown ==
  IsPageAction /\ lastAct.numPages # NoPages
    => /\ lastAct.to = lastAct.from \/ lastAct.to = lastAct.from + lastAct.offset
       /\ 1 <= lastAct.to
       /\ lastAct.to <= lastAct.numPages


(* C26: selecting a file opens the reader at the lastPage of the file's    *)
(* progress record, or at page 1 when it has none; and while a file stays  *)
(* open, the completion of a progress upsert does not move the page shown  *)
(* away from the page the user last turned to.                             *)
RecordedPage(hs, id) ==
  IF RecordsFor(hs, id) # {}
  THEN hs[CHOOSE i \in RecordsFor(hs, id) : TRUE].lastPage
  ELSE 1

C26_SelectOpensAtRecord ==
  [][activeFileId' # activeFileId /\ activeFileId' # NoFile
       => pageNumber' = RecordedPage(history', activeFileId')]_vars

C26_UpsertKeepsPage ==
  [][lastDone'.kind = "page" /\ activeFileId' = activeFileId /\ turnedTo # 0
       => pageNumber' = turnedTo]_vars

C26_OpensAtRecordAndStays ==
  [][/\ activeFileId' # activeFileId /\ activeFileId' # NoFile
          => pageNumber' = RecordedPage(history', activeFileId')
     /\ lastDone'.kind = "page" /\ activeFileId' = activeFileId /\ turnedTo # 0
          => pageNumber' = turnedTo]_vars


(* The second part of C26 for the completion of the oldest upsert while a  *)
(* newer one is in flight.                                                 *)
C26_OldestUpsertKeepsPage ==
  [][(lastDone'.kind = "page" /\ Len(ops) > 1 /\ ops' = Tail(ops)
        /\ activeFileId' = activeFileId /\ turnedTo # 0)
       => pageNumber' = turnedTo]_vars


(***************************************************************************)
(* The folder selection against the tree (TreeSpec).                       *)
(***************************************************************************)
(* The folder nodes of a forest, each with the names on the way from the   *)
(* root to it: the parts the builder matched to reach it.                  *)
RECURSIVE FolderChains(_, _)
FolderChains(nodes, above) ==
  IF Len(nodes) = 0 THEN {}
  ELSE LET n == Head(nodes)
           names == Append(above, n.name)
       IN (IF n.type = "folder"
           THEN {[names |-> names, path |-> n.path]} \cup FolderChains(n.children, names)
           ELSE {})
          \cup FolderChains(Tail(nodes), above)

(* The parts the builder splits a record's path into. *)
Parts(f) == Split(StripLeadingSlash(f.path))

(* The builder walks through the folder reached by names when it inserts f. *)
DescendsThrough(f, names) ==
  /\ Len(names) < Len(Parts(f))
  /\ SubSeq(Parts(f), 1, Len(names)) = names

FilesBeneath(names) ==
  {files[i].id : i \in {j \in 1..Len(files) : DescendsThrough(files[j], names)}}

(* C25: for every folder node n of the tree, the folder delete called with *)
(* n.path selects exactly the files whose path, split as the builder       *)
(* splits it, descends through n.                                          *)
C25_SelectionIsSubtree ==
  \A n \in FolderChains(treeData, <<>>) : SelectedIds(n.path) = FilesBeneath(n.names)

(* The same for file lists in which no path, less one leading slash, has   *)
(* an empty part.                                                          *)
NoEmptyPart(f) == \A k \in 1..Len(Parts(f)) : Parts(f)[k] # EmptyStr

C25_SelectionIsSubtreeNoEmptyPart ==
  (\A i \in 1..Len(files) : NoEmptyPart(files[i])) => C25_SelectionIsSubtree


(***************************************************************************)
(* The transcript of the chat panel (ChatSpec).                            *)
(***************************************************************************)
(* The transcript is a sequence of (user, model) pairs in the order of the *)
(* sends, with pairwise distinct ids; only the last message can be marked  *)
(* loading, and it is exactly when a request is outstanding.               *)
TranscriptShape ==
  /\ Len(messages) % 2 = 0
  /\ \A k \in 1..Len(messages) :
       /\ messages[k].role = (IF k % 2 = 1 THEN "user" ELSE "model")
       /\ messages[k].isLoading => k = Len(messages)
       /\ \A j \in 1..Len(messages) : messages[j].id = messages[k].id => j = k
       /\ k < Len(messages) => messages[k].id < messages[k + 1].id
  /\ (\E k \in 1..Len(messages) : messages[k].isLoading) <=> requests # <<>>

(* A step removes and reorders no message, and changes no user message. *)
AppendOnly ==
  /\ Len(messages') >= Len(messages)
  /\ \A k \in 1..Len(messages) :
       /\ messages'[k].id = messages[k].id
       /\ messages'[k].role = messages[k].role
       /\ messages[k].role = "user" => messages'[k] = messages[k]

(* C27: the transcript is append-only and strictly alternating: a sequence *)
(* of (user message, model message) pairs in send order, never shortened   *)
(* or reordered, with pairwise distinct ids, and with at most one message  *)
(* marked loading, the last model message, exactly when a request is       *)
(* outstanding.                                                            *)
C27_AppendOnlyAlternating == []TranscriptShape /\ [][AppendOnly]_vars

(* A second send is waiting for its response after the first was answered. *)
C27_Witness ==
  /\ Len(messages) = 4
  /\ ~messages[2].isLoading
  /\ messages[4].isLoading
  /\ requests # <<>>

====
